---------------------------- MODULE Spec2Model ----------------------------
(***************************************************************************)
(* HarbourOS admin UI: the NAS mount manager                               *)
(* (src/admin-ui/harbouros_admin/services/mount_manager.py) and the HTTP   *)
(* handlers of src/admin-ui/harbouros_admin/app.py that call it.           *)
(*                                                                         *)
(* Python strings are sequences of one-character strings, so that strip,   *)
(* lower, split, the regular expressions and the substring tests are       *)
(* computed character by character.  A dict key that is missing (and the   *)
(* None that data.get() returns for it) is the value Absent; a JSON null   *)
(* carried by a request body is the value Null.                            *)
(***************************************************************************)
EXTENDS Naturals, Sequences, FiniteSets

VARIABLES
    registry,    \* CONFIG_FILE: the "mounts" list of the persisted document
    dirs,        \* the mount-point directories that exist
    credFiles,   \* the credential files: path -> content
    unitFiles,   \* the unit files under SYSTEMD_DIR: path -> content
    enabled,     \* the units the service manager has enabled
    nextId,      \* the uuids issued so far are Uuid(1) .. Uuid(nextId - 1)
    nupdates,    \* the updates of registered mounts handled so far
    last,        \* the last request handled (one at a time) and its response
    removed,     \* the ids for which remove_mount has returned True
    pc,          \* per worker: where its request handler stands
    job,         \* per worker: the request it is handling
    cfg,         \* per worker: the config its handler loaded (its local copy)
    privileged,  \* os.getuid() == 0: no call is prefixed with sudo
    umask,       \* the permission bits the creator of a file withholds
    credMode,    \* the credential files: path -> permission bits
    oslog,       \* the OS calls the last operation issued, with their outcomes
    mounted,     \* the mount points on which a share is mounted
    shares,      \* what the last discover_shares returned
    message,     \* the message of the last start or stop
    attempts,    \* _login_attempts: ip -> the times of its failed logins
    clock,       \* time.time()
    authed,      \* the clients whose session has "authenticated"
    authConfig,  \* AUTH_CONFIG: the persisted auth document
    authLast     \* the last login or password request and its response

vars == <<registry, dirs, credFiles, unitFiles, enabled, nextId, nupdates, last,
          removed, pc, job, cfg, privileged, umask, credMode, oslog, mounted,
          shares, message, attempts, clock, authed, authConfig, authLast>>

fsVars == <<registry, dirs, credFiles, unitFiles, enabled>>
workerVars == <<pc, job, cfg>>
osVars == <<privileged, umask, credMode, oslog, mounted, shares, message>>
authVars == <<attempts, clock, authed, authConfig, authLast>>

---------------------------------------------------------------------------
(* Bounds of the model.                                                    *)

\* uuid4 values issued in one behaviour (the number of successful adds)
MaxIds == 2

\* updates of registered mounts handled in one behaviour
MaxUpdates == 1

\* the concurrent request handlers of SpecConc
Workers == {1, 2}

---------------------------------------------------------------------------
(* Strings.                                                                *)

Absent == <<"ABSENT">>
Null == <<"NULL">>

IsStr(s) == s /= Absent /\ s /= Null

UpperChars == <<"A","B","C","D","E","F","G","H","I","J","K","L","M",
                "N","O","P","Q","R","S","T","U","V","W","X","Y","Z">>
LowerChars == <<"a","b","c","d","e","f","g","h","i","j","k","l","m",
                "n","o","p","q","r","s","t","u","v","w","x","y","z">>
DigitChars == <<"0","1","2","3","4","5","6","7","8","9">>

Range(f) == {f[i] : i \in DOMAIN f}

AlnumChars == Range(UpperChars) \cup Range(LowerChars) \cup Range(DigitChars)

\* str.isspace() for the characters the inputs use
Whitespace == {" ", "\n"}

\* str.strip()
RECURSIVE LStrip(_)
LStrip(s) == IF s /= <<>> /\ Head(s) \in Whitespace THEN LStrip(Tail(s)) ELSE s

RECURSIVE RStrip(_)
RStrip(s) ==
    IF s /= <<>> /\ s[Len(s)] \in Whitespace
    THEN RStrip(SubSeq(s, 1, Len(s) - 1))
    ELSE s

Strip(s) == RStrip(LStrip(s))

\* str.lower()
LowerChar(c) ==
    IF c \in Range(UpperChars)
    THEN LowerChars[CHOOSE i \in DOMAIN UpperChars : UpperChars[i] = c]
    ELSE c

Lower(s) == [i \in DOMAIN s |-> LowerChar(s[i])]

\* sub in s
Contains(s, sub) ==
    \E i \in 1..(Len(s) + 1) :
        /\ i + Len(sub) - 1 <= Len(s)
        /\ SubSeq(s, i, i + Len(sub) - 1) = sub

\* s.split(sep) for a one-character sep: always at least one part
RECURSIVE Split(_, _)
Split(s, sep) ==
    IF \A i \in DOMAIN s : s[i] /= sep
    THEN <<s>>
    ELSE LET i == CHOOSE k \in DOMAIN s :
                      s[k] = sep /\ \A j \in 1..(k - 1) : s[j] /= sep
         IN  <<SubSeq(s, 1, i - 1)>> \o Split(SubSeq(s, i + 1, Len(s)), sep)

---------------------------------------------------------------------------
(* mount_manager.py: names, paths, validators.                             *)

CONFIG_DIR == <<"/","e","t","c","/","h","a","r","b","o","u","r","o","s">>
MOUNT_BASE == <<"/","m","e","d","i","a","/","n","a","s">>
SYSTEMD_DIR == <<"/","e","t","c","/","s","y","s","t","e","m","d","/",
                 "s","y","s","t","e","m">>

\* os.path.join(a, b) for a relative b
PathJoin(a, b) == IF a /= <<>> /\ a[Len(a)] = "/" THEN a \o b ELSE a \o <<"/">> \o b

\* re.sub(r"[^a-zA-Z0-9_-]", "-", name.strip().lower())
SlugChars == AlnumChars \cup {"_", "-"}

_sanitize_name(name) ==
    LET s == Lower(Strip(name))
    IN  [i \in DOMAIN s |-> IF s[i] \in SlugChars THEN s[i] ELSE "-"]

_mount_path(name) == PathJoin(MOUNT_BASE, _sanitize_name(name))

\* hosts _validate_host refuses by name
LOCALHOST == <<"l","o","c","a","l","h","o","s","t">>
LOOPBACK_V4 == <<"1","2","7",".","0",".","0",".","1">>
ANY_V4 == <<"0",".","0",".","0",".","0">>
LOOPBACK_V6 == <<":",":","1">>

HostChars == AlnumChars \cup {".", "_", "-"}

MaxHostLen == 253

\* a _validate_host without the length rule
_validate_host_ok_any_length(host) ==
    /\ IsStr(host)
    /\ host /= <<>>
    /\ LET h == Strip(host)
       IN  /\ h /= <<>>
           /\ \A i \in DOMAIN h : h[i] \in HostChars
           /\ h \notin {LOCALHOST, LOOPBACK_V4, ANY_V4, LOOPBACK_V6}

\* _validate_host raises ValueError unless this holds
_validate_host_ok(host) ==
    /\ IsStr(host)
    /\ host /= <<>>
    /\ LET h == Strip(host)
       IN  /\ h /= <<>>
           /\ \A i \in DOMAIN h : h[i] \in HostChars
           /\ h \notin {LOCALHOST, LOOPBACK_V4, ANY_V4, LOOPBACK_V6}
           /\ Len(h) <= MaxHostLen

\* what _validate_host returns when it does not raise
_validate_host(host) == Strip(host)

DOTDOT == <<".", ".">>

\* _validate_share raises ValueError unless this holds; it returns share
_validate_share_ok(share) ==
    /\ IsStr(share)
    /\ share /= <<>>
    /\ ~Contains(share, DOTDOT)

_SAFE_MOUNT_OPTIONS ==
    { <<"n","f","s","v","e","r","s">>, <<"v","e","r","s">>,
      <<"s","o","f","t">>, <<"h","a","r","d">>, <<"t","i","m","e","o">>,
      <<"r","e","t","r","a","n","s">>, <<"r","o">>, <<"r","w">>,
      <<"c","r","e","d","e","n","t","i","a","l","s">>,
      <<"i","o","c","h","a","r","s","e","t">>,
      <<"f","i","l","e","_","m","o","d","e">>,
      <<"d","i","r","_","m","o","d","e">>, <<"u","i","d">>, <<"g","i","d">>,
      <<"s","e","c">>, <<"n","o","a","c","l">>, <<"n","o","l","o","c","k">>,
      <<"i","n","t","r">> }

\* the keys of an options string: opt.split('=')[0].strip() of every token
OptionKeys(options) ==
    LET toks == Split(options, ",")
    IN  {Strip(Split(toks[i], "=")[1]) : i \in DOMAIN toks}

\* _validate_options raises ValueError unless this holds
_validate_options_ok(options) ==
    \/ ~IsStr(options)
    \/ options = <<>>
    \/ \A key \in OptionKeys(options) : key = <<>> \/ key \in _SAFE_MOUNT_OPTIONS

---------------------------------------------------------------------------
(* mount_manager.py: unit generation, credential files, unit files.        *)

NFS == <<"n","f","s">>
SMB == <<"s","m","b">>
CIFS == <<"c","i","f","s">>
WORKGROUP == <<"W","O","R","K","G","R","O","U","P">>
EXT_MOUNT == <<".","m","o","u","n","t">>
EXT_AUTOMOUNT == <<".","a","u","t","o","m","o","u","n","t">>
NFS_DEFAULT_OPTIONS ==
    <<"n","f","s","v","e","r","s","=","4",",","s","o","f","t",",",
      "t","i","m","e","o","=","1","5","0",",","r","e","t","r","a","n","s","=","3">>

\* CONFIG_DIR/smb-<slug>.creds
CredsFile(name) ==
    PathJoin(CONFIG_DIR,
             <<"s","m","b","-">> \o _sanitize_name(name) \o <<".","c","r","e","d","s">>)

SmbDefaultOptions(name) ==
    <<"v","e","r","s","=","3",".","0",",",
      "c","r","e","d","e","n","t","i","a","l","s","=">>
    \o CredsFile(name)
    \o <<",","i","o","c","h","a","r","s","e","t","=","u","t","f","8",",",
         "f","i","l","e","_","m","o","d","e","=","0","7","7","5",",",
         "d","i","r","_","m","o","d","e","=","0","7","7","5">>

\* s.strip("/") and s.lstrip("/")
RECURSIVE LStripSlash(_)
LStripSlash(s) == IF s /= <<>> /\ Head(s) = "/" THEN LStripSlash(Tail(s)) ELSE s

RECURSIVE RStripSlash(_)
RStripSlash(s) ==
    IF s /= <<>> /\ s[Len(s)] = "/"
    THEN RStripSlash(SubSeq(s, 1, Len(s) - 1))
    ELSE s

RECURSIVE Concat(_)
Concat(ss) == IF ss = <<>> THEN <<>> ELSE Head(ss) \o Concat(Tail(ss))

\* "-".join(parts)
RECURSIVE JoinDash(_)
JoinDash(parts) ==
    IF Len(parts) = 1 THEN parts[1] ELSE parts[1] \o <<"-">> \o JoinDash(Tail(parts))

\* a fallback that leaves the hyphens of a component as they are
EscapePartPlain(part) ==
    Concat([i \in DOMAIN part |->
              IF part[i] = "\\" THEN <<"\\","x","5","c">> ELSE <<part[i]>>])

\* the fallback of _systemd_escape: per component, backslash -> \x5c,
\* then hyphen -> \x2d; the components joined with "-"
EscapePart(part) ==
    Concat([i \in DOMAIN part |->
              IF part[i] = "\\" THEN <<"\\","x","5","c">>
              ELSE IF part[i] = "-" THEN <<"\\","x","2","d">>
              ELSE <<part[i]>>])

EscapeFallback(path) ==
    LET parts == Split(RStripSlash(LStripSlash(path)), "/")
    IN  JoinDash([i \in DOMAIN parts |-> EscapePart(parts[i])])

\* what `systemd-escape --path` prints: the path without its leading and
\* trailing slashes, "/" -> "-", the characters [A-Za-z0-9:_.] kept (a
\* leading "." is not), every other character as \xNN.  The paths passed
\* here are MOUNT_BASE/<slug>, whose only such character is "-".
EscapeUtilityChar(s, i) ==
    IF s[i] = "/" THEN <<"-">>
    ELSE IF s[i] = "-" THEN <<"\\","x","2","d">>
    ELSE IF s[i] = "\\" THEN <<"\\","x","5","c">>
    ELSE <<s[i]>>

EscapeUtility(path) ==
    LET s == RStripSlash(LStripSlash(path))
    IN  Concat([i \in DOMAIN s |-> EscapeUtilityChar(s, i)])

\* _systemd_escape: the utility's output when it exits 0, else the fallback.
\* Whether the utility answers is chosen once per request.
_systemd_escape(path, utilityOk) ==
    IF utilityOk THEN EscapeUtility(path) ELSE EscapeFallback(path)

UnitPath(unit_name, ext) == PathJoin(SYSTEMD_DIR, unit_name \o ext)

StartsWithSlash(s) == s /= <<>> /\ Head(s) = "/"

\* mount.get("options", default): the default only when the key is missing
EffectiveOptions(mount) ==
    IF mount.options /= Absent THEN mount.options
    ELSE IF mount.type = NFS THEN NFS_DEFAULT_OPTIONS
    ELSE SmbDefaultOptions(mount.name)

\* the content of the .mount unit: its fields, by key
_generate_mount_unit(mount) ==
    [ section     |-> "Mount",
      description |-> <<"N","A","S"," ","M","o","u","n","t",":"," ">> \o mount.name,
      what        |-> IF mount.type = NFS
                      THEN mount.host \o <<":">>
                           \o (IF StartsWithSlash(mount.share)
                               THEN mount.share ELSE <<"/">> \o mount.share)
                      ELSE <<"/","/">> \o mount.host \o <<"/">>
                           \o LStripSlash(mount.share),
      where       |-> _mount_path(mount.name),
      type        |-> IF mount.type = NFS THEN NFS ELSE CIFS,
      options     |-> EffectiveOptions(mount),
      timeout     |-> 30 ]

\* an automount unit with the timeout of the mount unit
_generate_automount_unit_30s(mount) ==
    [ section     |-> "Automount",
      description |-> <<"A","u","t","o","m","o","u","n","t"," ","N","A","S",":"," ">>
                      \o mount.name,
      what        |-> <<>>,
      where       |-> _mount_path(mount.name),
      type        |-> <<>>,
      options     |-> <<>>,
      timeout     |-> 30 ]

\* the content of the .automount unit
_generate_automount_unit(mount) ==
    [ section     |-> "Automount",
      description |-> <<"A","u","t","o","m","o","u","n","t"," ","N","A","S",":"," ">>
                      \o mount.name,
      what        |-> <<>>,
      where       |-> _mount_path(mount.name),
      type        |-> <<>>,
      options     |-> <<>>,
      timeout     |-> 600 ]

\* a file system: path -> content
WriteFile(fs, path, content) ==
    [p \in (DOMAIN fs) \cup {path} |-> IF p = path THEN content ELSE fs[p]]

RemoveFile(fs, path) == [p \in (DOMAIN fs) \ {path} |-> fs[p]]

NoFiles == [p \in {} |-> <<>>]

\* mount.get(key, default) of the credential lines
GetOr(v, default) == IF v = Absent THEN default ELSE v

\* _write_smb_credentials: the credential files afterwards
_write_smb_credentials(creds, mount) ==
    IF mount.type /= SMB THEN creds
    ELSE WriteFile(creds, CredsFile(mount.name),
                   [ username |-> GetOr(mount.username, <<>>),
                     password |-> GetOr(mount.password, <<>>),
                     domain   |-> GetOr(mount.domain, WORKGROUP) ])

\* _install_units: the unit files afterwards
_install_units(units, mount, utilityOk) ==
    LET unit_name == _systemd_escape(_mount_path(mount.name), utilityOk)
    IN  WriteFile(WriteFile(units, UnitPath(unit_name, EXT_MOUNT),
                            _generate_mount_unit(mount)),
                  UnitPath(unit_name, EXT_AUTOMOUNT),
                  _generate_automount_unit(mount))

\* a _remove_units that disables the units and leaves their files
RemoveNoUnitFiles(units, mount, utilityOk) == units

\* _remove_units: the unit files afterwards ...
RemoveUnitFiles(units, mount, utilityOk) ==
    LET unit_name == _systemd_escape(_mount_path(mount.name), utilityOk)
    IN  RemoveFile(RemoveFile(units, UnitPath(unit_name, EXT_MOUNT)),
                   UnitPath(unit_name, EXT_AUTOMOUNT))

\* ... and the credential files afterwards (whatever the mount's type)
RemoveCredsFile(creds, mount) == RemoveFile(creds, CredsFile(mount.name))

---------------------------------------------------------------------------
(* Requests and responses.                                                 *)

\* str(uuid.uuid4())[:8]: the n-th value issued.  The values uuid4 issues are
\* taken to differ from one another and from every id seen before.
Uuid(n) == <<DigitChars[n + 1]>>

\* the id of the tests' requests for a mount that does not exist
UNKNOWN_ID == <<"x">>

MountFields ==
    {"id", "name", "type", "host", "share", "username", "password", "domain", "options"}

Req(name, type, host, share, username, password, options) ==
    [ name |-> name, type |-> type, host |-> host, share |-> share,
      username |-> username, password |-> password, domain |-> Absent,
      options |-> options ]

NoReq == Req(Absent, Absent, Absent, Absent, Absent, Absent, Absent)

NoMount == [f \in MountFields |-> Absent]

NoPatch == [f \in MountFields |-> Absent]

N_TV == <<"T","v">>
N_tv == <<"t","v">>
N_D == <<"d","!">>
H_1 == <<"n","1">>
H_1_PADDED == <<" ","n","1">>
S_NFS == <<"/","v">>
S_SMB == <<"s">>
S_TRAVERSAL == <<"/","v","/",".",".">>
O_RO == <<"r","o">>
O_EVIL == <<"e","v","i","l","=","1">>
U_1 == <<"u">>
P_1 == <<"p">>
FTP == <<"f","t","p">>

\* request bodies that add_mount accepts
ValidAddRequests ==
    { Req(N_TV, NFS, H_1_PADDED, S_NFS, Absent, Absent, O_RO),
      Req(N_tv, SMB, H_1, S_SMB, U_1, P_1, Absent) }

\* request bodies that api_add_mount or add_mount refuses
InvalidAddRequests ==
    { Req(N_TV, NFS, LOCALHOST, S_NFS, Absent, Absent, Absent),
      Req(N_tv, SMB, H_1, S_TRAVERSAL, U_1, P_1, Absent),
      Req(N_TV, NFS, H_1, S_NFS, Absent, Absent, O_EVIL),
      Req(N_TV, FTP, H_1, S_NFS, Absent, Absent, Absent) }

AddRequests == ValidAddRequests \cup InvalidAddRequests

Patch(field, value) == [f \in MountFields |-> IF f = field THEN value ELSE Absent]

\* the ids the responses have shown to the clients
IssuedIds == { Uuid(n) : n \in 1..(nextId - 1) }

\* the body {"host": "localhost", "type": "smb", "share": null}
RetargetPatch == [Patch("host", LOCALHOST) EXCEPT !.type = SMB, !.share = Null]

\* request bodies of PUT /api/mounts/<id>: a host and a type with a JSON
\* null for the share, a new name with another slug, a new name with the slug
\* of "Tv", an id (an id a client sends is one it has seen)
UpdatePatches ==
    { RetargetPatch, Patch("name", N_D), Patch("name", N_tv) }
    \cup { Patch("id", id) : id \in IssuedIds }

\* the PUT requests: every patch for every id issued, one for an unknown id
UpdateRequests ==
    (IssuedIds \X UpdatePatches) \cup {<<UNKNOWN_ID, Patch("name", N_D)>>}

\* the ids a client asks to remove
RequestIds == IssuedIds \cup { UNKNOWN_ID }

Response(op, id, req, patch, status, mount, views) ==
    [ op |-> op, id |-> id, req |-> req, patch |-> patch, status |-> status,
      mount |-> mount, views |-> views ]

---------------------------------------------------------------------------
(* mount_manager.py and app.py: the operations on the registry.            *)

\* `not data.get(f)`
Falsy(v) == v = Absent \/ v = Null \/ v = <<>>

\* api_add_mount answers 400 before calling add_mount
ApiAddRejects(req) ==
    \/ \E f \in {"name", "type", "host", "share"} : Falsy(req[f])
    \/ req.type \notin {NFS, SMB}

\* add_mount without its call of _validate_share
AddMountRaisesNoShareCheck(req) ==
    \/ ~_validate_host_ok(req.host)
    \/ (~Falsy(req.options) /\ ~_validate_options_ok(req.options))

\* add_mount raises ValueError
AddMountRaises(req) ==
    \/ ~_validate_host_ok(req.host)
    \/ ~_validate_share_ok(req.share)
    \/ (~Falsy(req.options) /\ ~_validate_options_ok(req.options))

\* {k: v for k, v in kwargs.items() if v is not None}
NotNone(v) == IF v = Null THEN Absent ELSE v

\* the mount dict built from the host as given, not as _validate_host returned it
NewMountRawHost(id, req) ==
    [ id |-> id, name |-> req.name, type |-> req.type,
      host |-> req.host, share |-> req.share,
      username |-> NotNone(req.username), password |-> NotNone(req.password),
      domain |-> NotNone(req.domain), options |-> NotNone(req.options) ]

\* the mount dict add_mount builds
NewMount(id, req) ==
    [ id |-> id, name |-> req.name, type |-> req.type,
      host |-> _validate_host(req.host), share |-> req.share,
      username |-> NotNone(req.username), password |-> NotNone(req.password),
      domain |-> NotNone(req.domain), options |-> NotNone(req.options) ]

\* an update that replaces the entry by the body, keeping its id
MergePatchReplace(m, patch) ==
    [f \in MountFields |-> IF f = "id" THEN m.id ELSE patch[f]]

\* dict.update(kwargs): the JSON nulls of the body overwrite as well
MergePatchWithNulls(m, patch) ==
    [f \in MountFields |-> IF patch[f] /= Absent THEN patch[f] ELSE m[f]]

\* dict.update({k: v for k, v in kwargs.items() if v is not None})
MergePatch(m, patch) ==
    [f \in MountFields |-> IF IsStr(patch[f]) THEN patch[f] ELSE m[f]]

\* the index of the first entry with this id, 0 when there is none
FindMount(mounts, id) ==
    IF \E i \in DOMAIN mounts : mounts[i].id = id
    THEN CHOOSE i \in DOMAIN mounts :
             mounts[i].id = id /\ \A j \in 1..(i - 1) : mounts[j].id /= id
    ELSE 0

\* list.pop(i)
Pop(mounts, i) == SubSeq(mounts, 1, i - 1) \o SubSeq(mounts, i + 1, Len(mounts))

\* one entry of list_mounts (the live status is OS state outside this model)
MountView(m) ==
    [ id |-> m.id, name |-> m.name, type |-> m.type, host |-> m.host,
      share |-> m.share, target |-> _mount_path(m.name) ]

ListViews(mounts) == [i \in DOMAIN mounts |-> MountView(mounts[i])]

\* the name of the unit that _install_units enables
AutomountUnit(mount, utilityOk) ==
    _systemd_escape(_mount_path(mount.name), utilityOk) \o EXT_AUTOMOUNT

MountUnit(mount, utilityOk) ==
    _systemd_escape(_mount_path(mount.name), utilityOk) \o EXT_MOUNT

\* whether systemd-escape answers, in the behaviours where no OS call fails
UtilityAnswers == {TRUE}

\* POST /api/mounts, one request at a time
AddMount(req) ==
    /\ UNCHANGED <<removed, nupdates, workerVars, osVars, authVars>>
    /\ IF ApiAddRejects(req) \/ AddMountRaises(req)
       THEN /\ last' = Response("add", Absent, req, NoPatch, 400, NoMount, <<>>)
            /\ UNCHANGED <<fsVars, nextId>>
       ELSE /\ nextId <= MaxIds
            /\ \E utilityOk \in UtilityAnswers :
                 LET mount == NewMount(Uuid(nextId), req)
                 IN  /\ registry' = Append(registry, mount)
                     /\ dirs' = dirs \cup {_mount_path(mount.name)}
                     /\ credFiles' = _write_smb_credentials(credFiles, mount)
                     /\ unitFiles' = _install_units(unitFiles, mount, utilityOk)
                     /\ enabled' = enabled \cup {AutomountUnit(mount, utilityOk)}
                     /\ nextId' = nextId + 1
                     /\ last' = Response("add", mount.id, req, NoPatch, 201, mount, <<>>)

\* PUT /api/mounts/<mount_id>, one request at a time
UpdateMount(mount_id, patch) ==
    /\ UNCHANGED <<dirs, nextId, removed, workerVars, osVars, authVars>>
    /\ LET i == FindMount(registry, mount_id)
       IN  IF i = 0
           THEN /\ last' = Response("update", mount_id, NoReq, patch, 404, NoMount, <<>>)
                /\ UNCHANGED <<registry, credFiles, unitFiles, enabled, nupdates>>
           ELSE /\ nupdates < MaxUpdates
                /\ nupdates' = nupdates + 1
                /\ \E utilityOk \in UtilityAnswers :
                     LET old == registry[i]
                         removeOk == utilityOk
                         installOk == utilityOk
                         new == MergePatch(old, patch)
                     IN  /\ registry' = [registry EXCEPT ![i] = new]
                         /\ credFiles' =
                              _write_smb_credentials(RemoveCredsFile(credFiles, old), new)
                         /\ unitFiles' =
                              _install_units(RemoveUnitFiles(unitFiles, old, removeOk),
                                             new, installOk)
                         /\ enabled' =
                              (enabled \ {AutomountUnit(old, removeOk),
                                          MountUnit(old, removeOk)})
                              \cup {AutomountUnit(new, installOk)}
                         /\ last' = Response("update", mount_id, NoReq, patch, 200, new, <<>>)

\* DELETE /api/mounts/<mount_id>, one request at a time.  No share is mounted
\* in these behaviours, so the mount point is empty and rmdir removes it.
RemoveMount(mount_id) ==
    /\ UNCHANGED <<nextId, nupdates, workerVars, osVars, authVars>>
    /\ LET i == FindMount(registry, mount_id)
       IN  IF i = 0
           THEN /\ last' = Response("remove", mount_id, NoReq, NoPatch, 404, NoMount, <<>>)
                /\ UNCHANGED <<fsVars, removed>>
           ELSE \E utilityOk \in UtilityAnswers :
                  LET m == registry[i]
                  IN  /\ unitFiles' = RemoveUnitFiles(unitFiles, m, utilityOk)
                      /\ enabled' = enabled \ {AutomountUnit(m, utilityOk),
                                               MountUnit(m, utilityOk)}
                      /\ credFiles' = RemoveCredsFile(credFiles, m)
                      /\ dirs' = dirs \ {_mount_path(m.name)}
                      /\ registry' = Pop(registry, i)
                      /\ removed' = removed \cup {mount_id}
                      /\ last' = Response("remove", mount_id, NoReq, NoPatch, 200, m, <<>>)

\* GET /api/mounts
ListMounts ==
    /\ last' = Response("list", Absent, NoReq, NoPatch, 200, NoMount, ListViews(registry))
    /\ UNCHANGED <<fsVars, nextId, nupdates, removed, workerVars, osVars, authVars>>

\* a worker with no request
Idle == Response("init", Absent, NoReq, NoPatch, 200, NoMount, <<>>)

\* the permission bits of a file mode
OWNER_RW == {"ur", "uw"}
TEE_CREATE_MODE == {"ur", "uw", "gr", "gw", "or", "ow"}
UMASK_022 == {"gw", "ow"}
UMASK_077 == {"gr", "gw", "gx", "or", "ow", "ox"}

\* bcrypt.hashpw(password, bcrypt.gensalt()): the n-th salt drawn for this
\* document; two hashes are equal when password and salt are
Bcrypt(password, n) == [alg |-> "bcrypt", of |-> password, salt |-> n]

\* hashlib.sha256(password).hexdigest(): no salt
Sha256(password) == [alg |-> "sha256", of |-> password, salt |-> 0]

PW_DEFAULT == <<"h","a","r","b","o","u","r","o","s">>

_DEFAULT_HASH == Bcrypt(PW_DEFAULT, 0)

\* AUTH_CONFIG does not exist
NoAuthFile ==
    [present |-> FALSE, password_hash |-> _DEFAULT_HASH, password_changed |-> FALSE]

\* the clients, by their remote address
IP_A == <<"a">>
IP_B == <<"b">>
Clients == {IP_A, IP_B}

AuthResponse(op, ip, password, new, status, checked) ==
    [ op |-> op, ip |-> ip, password |-> password, new |-> new,
      status |-> status, checked |-> checked ]

AuthIdle == AuthResponse("init", Absent, Absent, Absent, 200, FALSE)

\* the mount manager before its first request
InitMounts ==
    /\ registry = <<>>
    /\ dirs = {}
    /\ credFiles = NoFiles
    /\ unitFiles = NoFiles
    /\ enabled = {}
    /\ nextId = 1
    /\ nupdates = 0
    /\ last = Idle
    /\ removed = {}
    /\ pc = [w \in Workers |-> "idle"]
    /\ job = [w \in Workers |-> Idle]
    /\ cfg = [w \in Workers |-> <<>>]
    /\ credMode = NoFiles
    /\ oslog = <<>>
    /\ mounted = {}
    /\ shares = <<>>
    /\ message = <<>>

\* nobody has tried to log in, nobody is logged in
InitLogin ==
    /\ attempts = [ip \in Clients |-> <<>>]
    /\ clock = 0
    /\ authed = {}
    /\ authLast = AuthIdle

\* the service runs as root with the usual mask; no auth document yet
Init ==
    /\ InitMounts
    /\ privileged = TRUE
    /\ umask = UMASK_022
    /\ InitLogin
    /\ authConfig = NoAuthFile

Next ==
    \/ \E req \in AddRequests : AddMount(req)
    \/ \E r \in UpdateRequests : UpdateMount(r[1], r[2])
    \/ \E id \in RequestIds : RemoveMount(id)
    \/ ListMounts

\* the requests handled one at a time
Spec == Init /\ [][Next]_vars

---------------------------------------------------------------------------
(* The same handlers run by concurrent workers (the WSGI server's threads  *)
(* or processes), one step per access to CONFIG_FILE; what a handler does  *)
(* to the other files between two such accesses is part of one step.  The  *)
(* code takes no lock: _load_config reads CONFIG_FILE, the handler changes *)
(* its own copy, and _save_config opens the file for writing (which        *)
(* truncates it) and then dumps the copy into it.                          *)

\* _load_config: an empty or unparsable file reads as {"mounts": []}
_load_config == registry

\* add_mount up to its _save_config: validate, load, build the mount, append
CBeginAdd(w, req) ==
    /\ pc[w] = "idle"
    /\ ~(ApiAddRejects(req) \/ AddMountRaises(req))
    /\ nextId <= MaxIds
    /\ LET mount == NewMount(Uuid(nextId), req)
       IN  /\ cfg' = [cfg EXCEPT ![w] = Append(_load_config, mount)]
           /\ job' = [job EXCEPT ![w] =
                        Response("add", mount.id, req, NoPatch, 0, mount, <<>>)]
    /\ nextId' = nextId + 1
    /\ pc' = [pc EXCEPT ![w] = "save"]
    /\ UNCHANGED <<fsVars, nupdates, last, removed>>
    /\ UNCHANGED <<osVars, authVars>>

\* update_mount up to its _remove_units: load, find the entry
CBeginUpdate(w, mount_id, patch) ==
    /\ pc[w] = "idle"
    /\ LET loaded == _load_config
           i == FindMount(loaded, mount_id)
       IN  /\ cfg' = [cfg EXCEPT ![w] = loaded]
           /\ IF i = 0
              THEN /\ job' = [job EXCEPT ![w] =
                        Response("update", mount_id, NoReq, patch, 404, NoMount, <<>>)]
                   /\ pc' = [pc EXCEPT ![w] = "done"]
                   /\ UNCHANGED nupdates
              ELSE /\ nupdates < MaxUpdates
                   /\ nupdates' = nupdates + 1
                   /\ job' = [job EXCEPT ![w] =
                        Response("update", mount_id, NoReq, patch, 0, loaded[i], <<>>)]
                   /\ pc' = [pc EXCEPT ![w] = "units"]
    /\ UNCHANGED <<fsVars, nextId, last, removed>>
    /\ UNCHANGED <<osVars, authVars>>

\* remove_mount up to its _remove_units: load, find the entry
CBeginRemove(w, mount_id) ==
    /\ pc[w] = "idle"
    /\ LET loaded == _load_config
           i == FindMount(loaded, mount_id)
       IN  /\ cfg' = [cfg EXCEPT ![w] = loaded]
           /\ IF i = 0
              THEN /\ job' = [job EXCEPT ![w] =
                        Response("remove", mount_id, NoReq, NoPatch, 404, NoMount, <<>>)]
                   /\ pc' = [pc EXCEPT ![w] = "done"]
              ELSE /\ job' = [job EXCEPT ![w] =
                        Response("remove", mount_id, NoReq, NoPatch, 0, loaded[i], <<>>)]
                   /\ pc' = [pc EXCEPT ![w] = "units"]
    /\ UNCHANGED <<fsVars, nextId, nupdates, last, removed>>
    /\ UNCHANGED <<osVars, authVars>>

\* _remove_units of the entry found, then the change to the worker's copy:
\* update_mount merges the patch, remove_mount removes the directory and pops
CRemoveUnits(w) ==
    /\ pc[w] = "units"
    /\ \E utilityOk \in BOOLEAN :
         LET m == job[w].mount
             i == FindMount(cfg[w], job[w].id)
         IN  /\ unitFiles' = RemoveUnitFiles(unitFiles, m, utilityOk)
             /\ enabled' = enabled \ {AutomountUnit(m, utilityOk), MountUnit(m, utilityOk)}
             /\ credFiles' = RemoveCredsFile(credFiles, m)
             /\ IF job[w].op = "update"
                THEN /\ cfg' = [cfg EXCEPT ![w][i] = MergePatch(m, job[w].patch)]
                     /\ job' = [job EXCEPT ![w].mount = MergePatch(m, job[w].patch)]
                     /\ UNCHANGED dirs
                ELSE /\ cfg' = [cfg EXCEPT ![w] = Pop(cfg[w], i)]
                     /\ dirs' = dirs \ {_mount_path(m.name)}
                     /\ UNCHANGED job
    /\ pc' = [pc EXCEPT ![w] = "save"]
    /\ UNCHANGED <<registry, nextId, nupdates, last, removed>>
    /\ UNCHANGED <<osVars, authVars>>

\* _save_config: open(CONFIG_FILE, "w") leaves the file empty ...
CTruncate(w) ==
    /\ pc[w] = "save"
    /\ registry' = <<>>
    /\ pc' = [pc EXCEPT ![w] = "write"]
    /\ UNCHANGED <<dirs, credFiles, unitFiles, enabled, nextId, nupdates, last,
                   removed, job, cfg>>
    /\ UNCHANGED <<osVars, authVars>>

\* ... and json.dump and the close write the worker's copy into it
CWrite(w) ==
    /\ pc[w] = "write"
    /\ registry' = cfg[w]
    /\ pc' = [pc EXCEPT ![w] = "post"]
    /\ UNCHANGED <<dirs, credFiles, unitFiles, enabled, nextId, nupdates, last,
                   removed, job, cfg>>
    /\ UNCHANGED <<osVars, authVars>>

\* what follows _save_config, and the response
CFinish(w) ==
    /\ pc[w] = "post"
    /\ \E utilityOk \in BOOLEAN :
         LET m == job[w].mount
         IN  CASE job[w].op = "add" ->
                    /\ dirs' = dirs \cup {_mount_path(m.name)}
                    /\ credFiles' = _write_smb_credentials(credFiles, m)
                    /\ unitFiles' = _install_units(unitFiles, m, utilityOk)
                    /\ enabled' = enabled \cup {AutomountUnit(m, utilityOk)}
                    /\ job' = [job EXCEPT ![w].status = 201]
                    /\ UNCHANGED removed
              [] job[w].op = "update" ->
                    /\ credFiles' = _write_smb_credentials(credFiles, m)
                    /\ unitFiles' = _install_units(unitFiles, m, utilityOk)
                    /\ enabled' = enabled \cup {AutomountUnit(m, utilityOk)}
                    /\ job' = [job EXCEPT ![w].status = 200]
                    /\ UNCHANGED <<dirs, removed>>
              [] OTHER ->
                    /\ removed' = removed \cup {job[w].id}
                    /\ job' = [job EXCEPT ![w].status = 200]
                    /\ UNCHANGED <<dirs, credFiles, unitFiles, enabled>>
    /\ pc' = [pc EXCEPT ![w] = "done"]
    /\ UNCHANGED <<registry, nextId, nupdates, last, cfg>>
    /\ UNCHANGED <<osVars, authVars>>

\* the response (job[w], while pc[w] = "done") leaves the worker, which takes
\* the next request
CReturn(w) ==
    /\ pc[w] = "done"
    /\ pc' = [pc EXCEPT ![w] = "idle"]
    /\ job' = [job EXCEPT ![w] = Idle]
    /\ cfg' = [cfg EXCEPT ![w] = <<>>]
    /\ UNCHANGED <<fsVars, nextId, nupdates, last, removed>>
    /\ UNCHANGED <<osVars, authVars>>

\* the patches the concurrent updates carry
ConcPatches == { Patch("name", N_D) }

NextConc ==
    \E w \in Workers :
        \/ \E req \in ValidAddRequests : CBeginAdd(w, req)
        \/ \E id \in IssuedIds, patch \in ConcPatches : CBeginUpdate(w, id, patch)
        \/ \E id \in IssuedIds : CBeginRemove(w, id)
        \/ CRemoveUnits(w)
        \/ CTruncate(w)
        \/ CWrite(w)
        \/ CFinish(w)
        \/ CReturn(w)

\* the requests handled by concurrent workers
SpecConc == Init /\ [][NextConc]_vars

---------------------------------------------------------------------------
(* mount_manager.py against the operating system: what the calls it issues *)
(* can answer.  One request at a time; add_mount is followed through its   *)
(* steps, and `last` with status 0 is the request still being handled.     *)

Call(cmd, out) == [cmd |-> cmd, out |-> out]

\* str.split(): the words of s
RECURSIVE Words(_)
Words(s) ==
    LET t == LStrip(s)
    IN  IF t = <<>> THEN <<>>
        ELSE LET n == IF \E i \in DOMAIN t : t[i] \in Whitespace
                      THEN CHOOSE i \in DOMAIN t :
                               /\ t[i] \in Whitespace
                               /\ \A j \in 1..(i - 1) : t[j] \notin Whitespace
                      ELSE Len(t) + 1
             IN  <<SubSeq(t, 1, n - 1)>> \o Words(SubSeq(t, n, Len(t)))

\* " ".join(parts)
RECURSIVE JoinSpace(_)
JoinSpace(parts) ==
    IF parts = <<>> THEN <<>>
    ELSE IF Len(parts) = 1 THEN parts[1]
    ELSE parts[1] \o <<" ">> \o JoinSpace(Tail(parts))

\* what follows the first word of s
AfterWord(s) ==
    LET t == LStrip(s)
        n == IF \E i \in DOMAIN t : t[i] \in Whitespace
             THEN CHOOSE i \in DOMAIN t :
                      /\ t[i] \in Whitespace
                      /\ \A j \in 1..(i - 1) : t[j] \notin Whitespace
             ELSE Len(t) + 1
    IN  SubSeq(t, n, Len(t))

Share(name, comment) == [name |-> name, comment |-> comment]

\* the rows of `showmount -e`: the lines after the header that have a word
NfsShares(stdout) ==
    LET lines == Tail(Split(Strip(stdout), "\n"))
        rows == SelectSeq(lines, LAMBDA l : Len(Words(l)) >= 1)
    IN  [i \in DOMAIN rows |->
           Share(Words(rows[i])[1], JoinSpace(Tail(Words(rows[i]))))]

DISK == <<"D","i","s","k">>

\* re.match(r"^\s+(\S+)\s+Disk\s+(.*)", line)
SmbRowMatches(line) ==
    /\ line /= <<>>
    /\ Head(line) \in Whitespace
    /\ Len(Words(line)) >= 2
    /\ Words(line)[2] = DISK
    /\ AfterWord(AfterWord(line)) /= <<>>

\* the rows of `smbclient -L`: the Disk lines whose name does not end in "$"
SmbShares(stdout) ==
    LET lines == Split(stdout, "\n")
        rows == SelectSeq(lines, LAMBDA l :
                    /\ SmbRowMatches(l)
                    /\ Words(l)[1][Len(Words(l)[1])] /= "$")
    IN  [i \in DOMAIN rows |->
           Share(Words(rows[i])[1], Strip(AfterWord(AfterWord(rows[i]))))]

\* what a listing command printed
OUT_EMPTY == <<>>
OUT_NFS == <<"E",":","\n","/","v"," ","*","\n">>
OUT_SMB == <<" ","m"," ","D","i","s","k"," ","c","\n",
             " ","a","$"," ","D","i","s","k"," ","\n","x","\n">>

\* subprocess.run of a listing command: it exits with status 0 ("ok") or
\* another ("fail") having printed something, or subprocess.run raises
\* TimeoutExpired or FileNotFoundError
Run(out, stdout) == [out |-> out, stdout |-> stdout]

RunResults ==
    { Run(out, stdout) : out \in {"ok", "fail"},
                         stdout \in {OUT_EMPTY, OUT_NFS, OUT_SMB} }
    \cup { Run("timeout", OUT_EMPTY), Run("notfound", OUT_EMPTY) }

_discover_nfs_shares(run) ==
    IF run.out /= "ok" THEN <<>> ELSE NfsShares(run.stdout)

_discover_smb_shares(run) ==
    IF run.out \in {"timeout", "notfound"} THEN <<>> ELSE SmbShares(run.stdout)

\* POST /api/mounts/discover/shares
DiscoverShares(host, share_type, run) ==
    /\ pc[1] = "idle"
    /\ shares' = IF share_type = NFS THEN _discover_nfs_shares(run)
                 ELSE _discover_smb_shares(run)
    /\ oslog' = << Call(IF share_type = NFS THEN "showmount" ELSE "smbclient",
                        run.out) >>
    /\ last' = Response("discover", Absent,
                        Req(Absent, share_type, host, Absent, Absent, Absent, Absent),
                        NoPatch, 200, NoMount, <<>>)
    /\ message' = <<>>
    /\ UNCHANGED <<fsVars, nextId, nupdates, removed, workerVars, privileged,
                   umask, credMode, mounted, authVars>>

MSG_MOUNTED == <<"M","o","u","n","t","e","d"," ",
                 "s","u","c","c","e","s","s","f","u","l","l","y">>
MSG_UNMOUNTED == <<"U","n","m","o","u","n","t","e","d"," ",
                   "s","u","c","c","e","s","s","f","u","l","l","y">>
MSG_NOT_FOUND == <<"M","o","u","n","t"," ","n","o","t"," ","f","o","u","n","d">>

\* what a failing systemctl wrote to its standard error
STDERR_1 == <<"e","r","r","\n">>

\* the OS calls of a start or stop that issues them whether or not an entry
\* was found
StartStopCallsAlways(i, verb, escaped, out) ==
    << Call("systemd-escape", escaped), Call(verb, out) >>

\* the OS calls of mount_share and unmount_share: none unless an entry was
\* found at index i
StartStopCalls(i, verb, escaped, out) ==
    IF i = 0 THEN <<>>
    ELSE << Call("systemd-escape", escaped), Call(verb, out) >>

\* mount_share and unmount_share with their API handlers: systemctl exits
\* with 0 ("ok") or not ("fail"), or subprocess.run raises TimeoutExpired,
\* which nothing catches
StartStop(op, verb, mount_id, utilityOk, out) ==
    /\ pc[1] = "idle"
    /\ LET i == FindMount(registry, mount_id)
           found == i /= 0
           path == _mount_path(registry[i].name)
       IN  /\ oslog' = StartStopCalls(i, verb, IF utilityOk THEN "ok" ELSE "fail", out)
           /\ last' = Response(op, mount_id, NoReq, NoPatch,
                               IF found /\ out = "ok" THEN 200 ELSE 500,
                               NoMount, <<>>)
           /\ message' = IF ~found THEN MSG_NOT_FOUND
                         ELSE IF out = "timeout" THEN <<>>
                         ELSE IF out = "fail" THEN Strip(STDERR_1)
                         ELSE IF op = "mount" THEN MSG_MOUNTED ELSE MSG_UNMOUNTED
           /\ mounted' = IF found /\ out = "ok"
                         THEN IF op = "mount" THEN mounted \cup {path}
                              ELSE mounted \ {path}
                         ELSE mounted
    /\ shares' = <<>>
    /\ UNCHANGED <<fsVars, nextId, nupdates, removed, workerVars, privileged,
                   umask, credMode, authVars>>

\* POST /api/mounts/<mount_id>/mount
MountShare(mount_id, utilityOk, out) ==
    StartStop("mount", "start", mount_id, utilityOk, out)

\* POST /api/mounts/<mount_id>/unmount
UnmountShare(mount_id, utilityOk, out) ==
    StartStop("unmount", "stop", mount_id, utilityOk, out)

\* the mode of a file after it was opened for writing with O_CREAT: a file
\* that exists keeps its mode, a new one gets the mode asked for less the mask
ModeAfterCreate(modes, path, asked, mask) ==
    IF path \in DOMAIN modes THEN modes[path] ELSE asked \ mask

\* add_mount up to the write of the credential file: validate, load, append,
\* save, make the directory, and then os.open(..., 0o600) and the write when
\* privileged, `sudo tee` when not
OBeginAdd(req) ==
    /\ pc[1] = "idle"
    /\ ~(ApiAddRejects(req) \/ AddMountRaises(req))
    /\ nextId <= MaxIds
    /\ LET mount == NewMount(Uuid(nextId), req)
           creds == CredsFile(mount.name)
       IN  /\ registry' = Append(registry, mount)
           /\ dirs' = dirs \cup {_mount_path(mount.name)}
           /\ credFiles' = _write_smb_credentials(credFiles, mount)
           /\ last' = Response("add", mount.id, req, NoPatch, 0, mount, <<>>)
           /\ IF mount.type /= SMB
              THEN /\ credMode' = credMode
                   /\ oslog' = <<>>
                   /\ pc' = [pc EXCEPT ![1] = "install"]
              ELSE IF privileged
              THEN /\ credMode' = WriteFile(credMode, creds,
                                    ModeAfterCreate(credMode, creds, OWNER_RW, umask))
                   /\ oslog' = <<>>
                   /\ pc' = [pc EXCEPT ![1] = "install"]
              ELSE /\ credMode' = WriteFile(credMode, creds,
                                    ModeAfterCreate(credMode, creds, TEE_CREATE_MODE, umask))
                   /\ oslog' = << Call("tee-creds", "ok") >>
                   /\ pc' = [pc EXCEPT ![1] = "chmod"]
    /\ nextId' = nextId + 1
    /\ shares' = <<>>
    /\ message' = <<>>
    /\ UNCHANGED <<unitFiles, enabled, nupdates, removed, job, cfg, privileged,
                   umask, mounted, authVars>>

\* _write_smb_credentials, not privileged: `sudo chmod 600` after `sudo tee`
OChmod ==
    /\ pc[1] = "chmod"
    /\ credMode' = [credMode EXCEPT ![CredsFile(last.mount.name)] = OWNER_RW]
    /\ oslog' = Append(oslog, Call("chmod", "ok"))
    /\ pc' = [pc EXCEPT ![1] = "install"]
    /\ UNCHANGED <<registry, dirs, credFiles, unitFiles, enabled, nextId, nupdates,
                   last, removed, job, cfg, privileged, umask, mounted, shares,
                   message, authVars>>

\* how _install_units can end: both unit files written, the service manager
\* reloaded and the automount unit enabled; the unit files not written;
\* `systemctl enable` failed; `systemctl daemon-reload` exited non-zero; it
\* ran into its timeout
InstallOutcomes == {"ok", "write-fail", "enable-fail", "reload-fail", "reload-timeout"}

\* _install_units and add_mount's return.  Not privileged, the unit files
\* are written by `sudo tee`, whose exit status nothing reads; privileged,
\* open() raises OSError.  `systemctl daemon-reload` and `systemctl enable`
\* run with check=False and timeout=10: a non-zero exit is ignored, and
\* subprocess.run raises TimeoutExpired, which nothing catches.
OInstall(out) ==
    /\ pc[1] = "install"
    /\ \E utilityOk \in BOOLEAN :
         LET mount == last.mount
             written == out /= "write-fail"
             writeRaised == privileged /\ ~written
             raised == writeRaised \/ out = "reload-timeout"
             isEnabled == out \in {"ok", "reload-fail"}
         IN  /\ unitFiles' = IF written
                             THEN _install_units(unitFiles, mount, utilityOk)
                             ELSE unitFiles
             /\ enabled' = IF isEnabled
                           THEN enabled \cup {AutomountUnit(mount, utilityOk)}
                           ELSE enabled
             /\ oslog' = oslog
                         \o << Call("write-units", IF written THEN "ok" ELSE "fail") >>
                         \o (IF writeRaised THEN <<>>
                             ELSE << Call("reload",
                                          CASE out = "reload-fail" -> "fail"
                                            [] out = "reload-timeout" -> "timeout"
                                            [] OTHER -> "ok") >>)
                         \o (IF raised THEN <<>>
                             ELSE << Call("enable", IF isEnabled THEN "ok" ELSE "fail") >>)
             /\ last' = [last EXCEPT !.status = IF raised THEN 500 ELSE 201]
    /\ pc' = [pc EXCEPT ![1] = "idle"]
    /\ UNCHANGED <<registry, dirs, credFiles, nextId, nupdates, removed, job, cfg,
                   privileged, umask, credMode, mounted, shares, message, authVars>>

\* how remove_mount's calls can end: all exit with 0; `systemctl disable
\* --now` exits non-zero or runs into its timeout; `systemctl daemon-reload`
\* does; the removal of the mount-point directory does
RemoveOutcomes ==
    {"ok", "disable-fail", "disable-timeout", "reload-fail", "reload-timeout",
     "rmdir-fail", "rmdir-timeout"}

\* DELETE /api/mounts/<mount_id> against the operating system.  The calls of
\* _remove_units run with check=False and a timeout: a non-zero exit is
\* ignored, TimeoutExpired is raised and not caught (remove_mount catches
\* OSError, around the directory removal only), and the handler answers 500
\* with what was done before the call left done.  os.rmdir (privileged) has
\* no timeout; `sudo rmdir` (not privileged) has.
ORemove(mount_id, out) ==
    /\ pc[1] = "idle"
    /\ LET i == FindMount(registry, mount_id)
       IN  IF i = 0
           THEN /\ last' = Response("remove", mount_id, NoReq, NoPatch, 404, NoMount, <<>>)
                /\ oslog' = <<>>
                /\ UNCHANGED <<fsVars, removed, credMode, mounted>>
           ELSE \E utilityOk \in BOOLEAN :
                  LET m == registry[i]
                      path == _mount_path(m.name)
                      disabled == out \notin {"disable-fail", "disable-timeout"}
                      pastDisable == out /= "disable-timeout"
                      pastReload == pastDisable /\ out /= "reload-timeout"
                      stillMounted == IF disabled THEN mounted \ {path} ELSE mounted
                      isdir == path \in dirs
                      rmdirOk == /\ isdir
                                 /\ out \notin {"rmdir-fail", "rmdir-timeout"}
                                 /\ path \notin stillMounted
                      done == pastReload /\ out /= "rmdir-timeout"
                  IN  /\ out \in {"rmdir-fail", "rmdir-timeout"} => isdir
                      /\ out = "rmdir-timeout" => ~privileged
                      /\ mounted' = stillMounted
                      /\ enabled' = IF disabled
                                    THEN enabled \ {AutomountUnit(m, utilityOk),
                                                    MountUnit(m, utilityOk)}
                                    ELSE enabled
                      /\ unitFiles' = IF pastDisable
                                      THEN RemoveUnitFiles(unitFiles, m, utilityOk)
                                      ELSE unitFiles
                      /\ credFiles' = IF pastReload THEN RemoveCredsFile(credFiles, m)
                                      ELSE credFiles
                      /\ credMode' = IF pastReload THEN RemoveFile(credMode, CredsFile(m.name))
                                     ELSE credMode
                      /\ dirs' = IF pastReload /\ rmdirOk THEN dirs \ {path} ELSE dirs
                      /\ registry' = IF done THEN Pop(registry, i) ELSE registry
                      /\ removed' = IF done THEN removed \cup {mount_id} ELSE removed
                      /\ oslog' =
                           << Call("disable", CASE out = "disable-fail" -> "fail"
                                                [] out = "disable-timeout" -> "timeout"
                                                [] OTHER -> "ok") >>
                           \o (IF pastDisable
                               THEN << Call("reload", CASE out = "reload-fail" -> "fail"
                                                        [] out = "reload-timeout" -> "timeout"
                                                        [] OTHER -> "ok") >>
                               ELSE <<>>)
                           \o (IF pastReload /\ isdir
                               THEN << Call("rmdir", CASE out = "rmdir-timeout" -> "timeout"
                                                       [] rmdirOk -> "ok"
                                                       [] OTHER -> "fail") >>
                               ELSE <<>>)
                      /\ last' = Response("remove", mount_id, NoReq, NoPatch,
                                          IF done THEN 200 ELSE 500, m, <<>>)
    /\ shares' = <<>>
    /\ message' = <<>>
    /\ UNCHANGED <<nextId, nupdates, workerVars, privileged, umask, authVars>>

\* the hosts and the outcomes of the calls
StartStopOutcomes == {"ok", "fail", "timeout"}

NextOs ==
    \/ \E req \in ValidAddRequests : OBeginAdd(req)
    \/ OChmod
    \/ \E out \in InstallOutcomes : OInstall(out)
    \/ \E id \in RequestIds, u \in BOOLEAN, out \in StartStopOutcomes :
           MountShare(id, u, out)
    \/ \E id \in RequestIds, u \in BOOLEAN, out \in StartStopOutcomes :
           UnmountShare(id, u, out)
    \/ \E share_type \in {NFS, SMB}, run \in RunResults :
           DiscoverShares(H_1, share_type, run)

\* the service runs as root or through sudo, under either mask
InitOs ==
    /\ InitMounts
    /\ privileged \in BOOLEAN
    /\ umask \in {UMASK_022, UMASK_077}
    /\ InitLogin
    /\ authConfig = NoAuthFile

\* the mount manager and the operating system's answers
SpecOs == InitOs /\ [][NextOs]_vars

\* add, start and remove against the operating system
NextOsRemove ==
    \/ \E req \in ValidAddRequests : OBeginAdd(req)
    \/ OChmod
    \/ \E out \in InstallOutcomes : OInstall(out)
    \/ \E id \in IssuedIds, out \in {"ok", "fail"} : MountShare(id, TRUE, out)
    \/ \E id \in RequestIds, out \in RemoveOutcomes : ORemove(id, out)

\* the mount manager removing mounts, and the operating system's answers
SpecOsRemove == InitOs /\ [][NextOsRemove]_vars

---------------------------------------------------------------------------
(* app.py: the login handler and its rate limit; auth_service.py: the      *)
(* password.  One request at a time; the clock moves between requests.     *)

_MAX_ATTEMPTS == 5
_WINDOW_SECONDS == 60
MIN_PASSWORD_LEN == 8

\* the clock moves by this much at a time, up to MaxTime
TickSeconds == 30
MaxTime == 60

\* failed logins of the second client that are on record at one time
MaxOtherFailures == 1

PW_WRONG == <<"w","r","o","n","g">>
PW_NEW == <<"t","e","m","p","1","2","3","4">>
PW_SHORT == <<"n","e","w","p","a","s","s">>

\* an auth document left by a version that stored a SHA-256 digest
LegacyAuthFile ==
    [present |-> TRUE, password_hash |-> Sha256(PW_DEFAULT), password_changed |-> FALSE]

\* _load_auth_config: the document, the defaults when there is none (which
\* it then saves)
_load_auth_config(config) ==
    IF config.present THEN config
    ELSE [present |-> TRUE, password_hash |-> _DEFAULT_HASH, password_changed |-> FALSE]

_is_legacy_hash(stored) == stored.alg = "sha256"

\* _hash_password: a salt the stored hash does not have
_hash_password(password, stored) == Bcrypt(password, stored.salt + 1)

\* verify_password: [ok, config]: whether the password matches, and the auth
\* document afterwards (a legacy hash that matched is replaced by a bcrypt one)
verify_password(config, password) ==
    LET loaded == _load_auth_config(config)
        stored == loaded.password_hash
    IN  IF _is_legacy_hash(stored)
        THEN IF Sha256(password) = stored
             THEN [ok |-> TRUE,
                   config |-> [loaded EXCEPT
                                 !.password_hash = _hash_password(password, stored)]]
             ELSE [ok |-> FALSE, config |-> loaded]
        ELSE [ok |-> stored.of = password, config |-> loaded]

\* is_password_changed
is_password_changed(config) == _load_auth_config(config).password_changed

\* a change_password that does not verify the current password
change_password_unverified(config, current_password, new_password) ==
    LET v == verify_password(config, current_password)
    IN  IF Len(new_password) < MIN_PASSWORD_LEN
        THEN [ok |-> FALSE, config |-> v.config]
        ELSE [ok |-> TRUE,
              config |-> [v.config EXCEPT
                            !.password_hash =
                                _hash_password(new_password, v.config.password_hash),
                            !.password_changed = TRUE]]

\* change_password: [ok, config]
change_password(config, current_password, new_password) ==
    LET v == verify_password(config, current_password)
    IN  IF ~v.ok \/ Len(new_password) < MIN_PASSWORD_LEN
        THEN [ok |-> FALSE, config |-> v.config]
        ELSE [ok |-> TRUE,
              config |-> [v.config EXCEPT
                            !.password_hash =
                                _hash_password(new_password, v.config.password_hash),
                            !.password_changed = TRUE]]

\* [t for t in attempts if now - t < _WINDOW_SECONDS]
Prune(atts, now) == SelectSeq(atts, LAMBDA t : now - t < _WINDOW_SECONDS)

\* a limit that lets one more attempt through
_is_rate_limited_above(atts, now) == Len(Prune(atts, now)) > _MAX_ATTEMPTS

\* _is_rate_limited, on the pruned record it leaves
_is_rate_limited(atts, now) == Len(Prune(atts, now)) >= _MAX_ATTEMPTS

\* POST /login
Login(ip, password) ==
    /\ LET pruned == Prune(attempts[ip], clock)
           v == verify_password(authConfig, password)
       IN  IF _is_rate_limited(attempts[ip], clock)
           THEN /\ attempts' = [attempts EXCEPT ![ip] = pruned]
                /\ authLast' = AuthResponse("login", ip, password, Absent, 429, FALSE)
                /\ UNCHANGED <<authed, authConfig>>
           ELSE /\ authConfig' = v.config
                /\ IF v.ok
                   THEN /\ attempts' = [attempts EXCEPT ![ip] = <<>>]
                        /\ authed' = authed \cup {ip}
                        /\ authLast' = AuthResponse("login", ip, password, Absent, 200, TRUE)
                   ELSE /\ ip = IP_B => Len(pruned) < MaxOtherFailures
                        /\ attempts' = [attempts EXCEPT ![ip] = Append(pruned, clock)]
                        /\ authLast' = AuthResponse("login", ip, password, Absent, 401, TRUE)
                        /\ UNCHANGED authed
    /\ UNCHANGED <<fsVars, nextId, nupdates, last, removed, workerVars, osVars, clock>>

\* POST /api/auth/logout
Logout(ip) ==
    /\ ip \in authed
    /\ authed' = authed \ {ip}
    /\ authLast' = AuthResponse("logout", ip, Absent, Absent, 200, FALSE)
    /\ UNCHANGED <<fsVars, nextId, nupdates, last, removed, workerVars, osVars,
                   attempts, clock, authConfig>>

\* auth_service.change_password(current_password, new_password)
ChangePassword(current_password, new_password) ==
    /\ LET c == change_password(authConfig, current_password, new_password)
       IN  /\ authConfig' = c.config
           /\ authLast' = AuthResponse("change", Absent, current_password, new_password,
                                       IF c.ok THEN 200 ELSE 400, TRUE)
    /\ UNCHANGED <<fsVars, nextId, nupdates, last, removed, workerVars, osVars,
                   attempts, clock, authed>>

\* time passes
Tick ==
    /\ clock < MaxTime
    /\ clock' = clock + TickSeconds
    /\ UNCHANGED <<fsVars, nextId, nupdates, last, removed, workerVars, osVars,
                   attempts, authed, authConfig, authLast>>

NextAuth ==
    \/ \E ip \in Clients, password \in {PW_DEFAULT, PW_WRONG} : Login(ip, password)
    \/ \E ip \in Clients : Logout(ip)
    \/ \E current \in {PW_DEFAULT, PW_WRONG}, new \in {PW_NEW, PW_SHORT} :
           ChangePassword(current, new)
    \/ Tick

\* no auth document yet, or one with a legacy hash
InitAuth ==
    /\ InitMounts
    /\ privileged = TRUE
    /\ umask = UMASK_022
    /\ InitLogin
    /\ authConfig \in {NoAuthFile, LegacyAuthFile}

\* the login handler, the password and the clock
SpecAuth == InitAuth /\ [][NextAuth]_vars

---------------------------------------------------------------------------
(* The sequential handlers on the inputs at the edges of what the API      *)
(* accepts: a name of whitespace only, options given as the empty string,  *)
(* a share with and without its leading "/", hosts at and past every rule  *)
(* of _validate_host, a PUT with an empty body.                            *)

N_BLANK == <<" ">>
S_BARE == <<"v">>
S_SLASHED == <<"/","s">>
H_IP == <<"1","9","2",".","1","6","8",".","1",".","1","0","0">>
H_NAS == <<"n","a","s",".","l","o","c","a","l">>
H_SLASH == <<"n","/","1">>
H_MAX == [i \in 1..MaxHostLen |-> "a"]
H_LONG == [i \in 1..(MaxHostLen + 1) |-> "a"]
H_PADDED_LOCALHOST == <<" ">> \o LOCALHOST \o <<" ">>

\* request bodies that add_mount accepts
EdgeValidRequests ==
    { Req(N_D, NFS, H_IP, S_BARE, Absent, Absent, <<>>),
      Req(N_BLANK, SMB, H_NAS, S_SLASHED, U_1, P_1, Absent),
      Req(N_TV, NFS, H_1_PADDED, S_NFS, Absent, Absent, Null),
      Req(N_tv, SMB, H_MAX, S_SMB, Absent, Absent, O_RO) }

\* hosts that api_add_mount or _validate_host refuses
RefusedHosts ==
    { <<>>, Absent, Null, LOCALHOST, LOOPBACK_V4, ANY_V4, LOOPBACK_V6,
      H_SLASH, H_LONG, H_PADDED_LOCALHOST }

EdgeAddRequests ==
    EdgeValidRequests
    \cup { Req(N_TV, NFS, host, S_NFS, Absent, Absent, Absent) : host \in RefusedHosts }

\* the bodies of PUT: {} and {"name": " "}
EdgePatches == { NoPatch, Patch("name", N_BLANK) }

NextEdge ==
    \/ \E req \in EdgeAddRequests : AddMount(req)
    \/ \E id \in IssuedIds, patch \in EdgePatches : UpdateMount(id, patch)
    \/ \E id \in IssuedIds : RemoveMount(id)

\* the requests handled one at a time, on these inputs
SpecEdge == Init /\ [][NextEdge]_vars

---------------------------------------------------------------------------
(* The claims.                                                             *)

AddAnswered == last.op = "add"
AddCreated == last.op = "add" /\ last.status = 201
UpdateDone == last.op = "update" /\ last.status = 200

\* C1: an add whose host _validate_host rejects, whose share _validate_share
\* rejects or whose options _validate_options rejects is answered 400
\* (InvalidInput) and changes nothing: the registry, the mount-point
\* directories, the credential files and the unit files stay as they were.
C1_InvalidAddHasNoSideEffects ==
    [][ ( /\ last'.op = "add"
          /\ \/ ~_validate_host_ok(last'.req.host)
             \/ ~_validate_share_ok(last'.req.share)
             \/ ~_validate_options_ok(last'.req.options) )
        => ( /\ last'.status = 400
             /\ UNCHANGED <<registry, dirs, credFiles, unitFiles, enabled>> ) ]_vars

\* C1's case: a share with ".." was refused while mounts were registered
C1_Witness ==
    /\ AddAnswered
    /\ last.status = 400
    /\ ~_validate_share_ok(last.req.share)
    /\ registry /= <<>>
    /\ DOMAIN unitFiles /= {}

\* C2: every registered mount has a host _validate_host accepts, a share
\* without "..", and options whose every key is allow-listed.
C2_RegistryFieldsValid ==
    \A i \in DOMAIN registry :
        /\ _validate_host_ok(registry[i].host)
        /\ ~Contains(registry[i].share, DOTDOT)
        /\ _validate_options_ok(registry[i].options)

\* C3: no update is lost: when two concurrent adds have both returned a
\* mount, both mounts are in the registry.
C3_ConcurrentAddsBothKept ==
    \A w1 \in Workers, w2 \in Workers :
        ( /\ w1 /= w2
          /\ pc[w1] = "done" /\ job[w1].op = "add" /\ job[w1].status = 201
          /\ pc[w2] = "done" /\ job[w2].op = "add" /\ job[w2].status = 201 )
        => ( /\ FindMount(registry, job[w1].id) /= 0
             /\ FindMount(registry, job[w2].id) /= 0 )

\* C4: the persisted registry holds no username, password or domain.
C4_RegistryHoldsNoCredentials ==
    \A i \in DOMAIN registry :
        /\ registry[i].username = Absent
        /\ registry[i].password = Absent
        /\ registry[i].domain = Absent

\* C5: the mount a successful add or update returns carries no username,
\* password or domain.
C5_ResponsesCarryNoCredentials ==
    (AddCreated \/ UpdateDone)
    => ( /\ last.mount.username = Absent
         /\ last.mount.password = Absent
         /\ last.mount.domain = Absent )

\* C6: after update(id, patch) the updated mount still has the id it was
\* asked for under, and the registry still has an entry with that id.
C6_UpdateKeepsId ==
    UpdateDone
    => ( /\ last.mount.id = last.id
         /\ FindMount(registry, last.id) /= 0 )

\* C7: no two entries of the registry have the same id.
C7_RegistryIdsUnique ==
    \A i \in DOMAIN registry, j \in DOMAIN registry :
        i /= j => registry[i].id /= registry[j].id

\* C8: a successful add never leaves the registry with another mount of the
\* same slug as the one it created.
C8_AddKeepsSlugsUnique ==
    AddCreated
    => Cardinality({ i \in DOMAIN registry :
                       _sanitize_name(registry[i].name)
                         = _sanitize_name(last.mount.name) }) = 1

\* C9: once remove(id) has returned true, every later remove(id) returns
\* false, and a remove that returns false leaves the registry unchanged.
C9_RemoveIdempotent ==
    [][ /\ (last'.op = "remove" /\ last'.id \in removed) => last'.status = 404
        /\ (last'.op = "remove" /\ last'.status = 404) => registry' = registry ]_vars

\* the entries of a list result with this id
ViewsOf(views, id) == { i \in DOMAIN views : views[i].id = id }

\* C10 as stated: the list that follows a successful add has the created id
\* exactly once, with the host, type and share given to add.
C10_ListShowsHostAsGiven ==
    [][ (AddCreated /\ last'.op = "list")
        => /\ Cardinality(ViewsOf(last'.views, last.mount.id)) = 1
           /\ \A i \in ViewsOf(last'.views, last.mount.id) :
                /\ last'.views[i].host = last.req.host
                /\ last'.views[i].type = last.req.type
                /\ last'.views[i].share = last.req.share ]_vars

\* C10, amended: the list that follows a successful add has the created id
\* exactly once, with the type and share given to add and with the host
\* given to add stripped of its surrounding whitespace.
C10_ListShowsAddedMount ==
    [][ (AddCreated /\ last'.op = "list")
        => /\ Cardinality(ViewsOf(last'.views, last.mount.id)) = 1
           /\ \A i \in ViewsOf(last'.views, last.mount.id) :
                /\ last'.views[i].host = Strip(last.req.host)
                /\ last'.views[i].type = last.req.type
                /\ last'.views[i].share = last.req.share ]_vars

\* C10's case: a list result, of a registry that held a mount already, shows
\* the mount last created, which was added with a padded host
C10_Witness ==
    /\ last.op = "list"
    /\ Len(last.views) = 2
    /\ nextId = 3
    /\ last.views[2].id = Uuid(2)
    /\ last.views[2].host = H_1
    /\ last.views[2].type = NFS

\* C11: update(id, patch) on a registered mount overwrites exactly the fields
\* that are present and non-null in the patch: every other field of that
\* mount keeps its value, and every other entry of the registry, and the
\* order of the registry, stays as it was.
C11_UpdateOverwritesOnlyPatched ==
    [][ (last'.op = "update" /\ last'.status = 200)
        => LET i == FindMount(registry, last'.id)
           IN  /\ i /= 0
               /\ Len(registry') = Len(registry)
               /\ \A j \in DOMAIN registry : j /= i => registry'[j] = registry[j]
               /\ \A f \in MountFields :
                    registry'[i][f] =
                        IF last'.patch[f] \notin {Absent, Null}
                        THEN last'.patch[f]
                        ELSE registry[i][f] ]_vars

\* C11's case: the second of two registered mounts was renamed; its host and
\* the first mount are as they were added
C11_Witness ==
    /\ UpdateDone
    /\ last.patch.name = N_D
    /\ Len(registry) = 2
    /\ last.id = Uuid(2)
    /\ registry[2].name = N_D
    /\ registry[2].host = H_1
    /\ registry[1].name = N_TV

\* the unit files and the credential file located by a mount's name
FilesOf(m) ==
    { UnitPath(_systemd_escape(_mount_path(m.name), u), ext) :
        u \in BOOLEAN, ext \in {EXT_MOUNT, EXT_AUTOMOUNT} }

\* C12: after remove(id) has returned true, the registry has no entry with
\* that id, neither unit file of the removed mount exists, and its credential
\* file does not exist.
C12_RemoveLeavesNothing ==
    (last.op = "remove" /\ last.status = 200)
    => ( /\ FindMount(registry, last.id) = 0
         /\ FilesOf(last.mount) \cap DOMAIN unitFiles = {}
         /\ CredsFile(last.mount.name) \notin DOMAIN credFiles )

\* C13: a registered WindowsShare mount has a credential file if and only if
\* a username was supplied for it.
C13_CredsFileIffUsername ==
    \A i \in DOMAIN registry :
        registry[i].type = SMB
        => ( CredsFile(registry[i].name) \in DOMAIN credFiles
             <=> ~Falsy(registry[i].username) )

\* both unit files of a mount exist, under one unit id
UnitsInstalled(units, m) ==
    \E u \in BOOLEAN :
        \A ext \in {EXT_MOUNT, EXT_AUTOMOUNT} :
            UnitPath(_systemd_escape(_mount_path(m.name), u), ext) \in DOMAIN units

\* the registered mount an update request is about
Updated(id) == registry[FindMount(registry, id)]

\* C20 as stated: after an update that changes the name, no unit file and no
\* credential file remains under the old name's slug or unit id, and both
\* unit files exist under the new name's unit id.
C20_RenameMovesFiles ==
    [][ ( /\ last'.op = "update" /\ last'.status = 200
          /\ IsStr(last'.patch.name)
          /\ last'.patch.name /= Updated(last'.id).name )
        => ( /\ FilesOf(Updated(last'.id)) \cap DOMAIN unitFiles' = {}
             /\ CredsFile(Updated(last'.id).name) \notin DOMAIN credFiles'
             /\ UnitsInstalled(unitFiles', last'.mount) ) ]_vars

\* C20, amended: update removes the units located by the pre-update name,
\* merges, persists and installs under the post-update name, so after an
\* update that changes the name to one with another slug, no unit file and no
\* credential file remains under the old slug or unit id, and both unit files
\* exist under the new unit id.
C20_ReslugMovesFiles ==
    [][ ( /\ last'.op = "update" /\ last'.status = 200
          /\ IsStr(last'.patch.name)
          /\ _sanitize_name(last'.patch.name)
               /= _sanitize_name(Updated(last'.id).name) )
        => ( /\ FilesOf(Updated(last'.id)) \cap DOMAIN unitFiles' = {}
             /\ CredsFile(Updated(last'.id).name) \notin DOMAIN credFiles'
             /\ UnitsInstalled(unitFiles', last'.mount) ) ]_vars

\* C20's case: the only registered mount, a WindowsShare added as "tv", was
\* renamed to "d!": its files are under d-, none is under tv
C20_Witness ==
    /\ UpdateDone
    /\ last.patch.name = N_D
    /\ Len(registry) = 1
    /\ registry[1].type = SMB
    /\ registry[1].name = N_D
    /\ UnitsInstalled(unitFiles, registry[1])
    /\ CredsFile(N_D) \in DOMAIN credFiles
    /\ CredsFile(N_tv) \notin DOMAIN credFiles

\* C14: in every state in which a credential file exists, the states between
\* the steps of its write included, privileged or not, its permissions are
\* owner-only read/write (0600).
C14_CredentialFilesOwnerOnly ==
    \A p \in DOMAIN credFiles :
        p \in DOMAIN credMode /\ credMode[p] = OWNER_RW

C16_FailuresReported ==
    /\ (last.op = "add" /\ last.status = 201)
       => \A k \in DOMAIN oslog :
              oslog[k].cmd \in {"write-units", "enable"} => oslog[k].out = "ok"
    /\ ( /\ last.op \in {"mount", "unmount"}
         /\ \E k \in DOMAIN oslog :
                oslog[k].cmd \in {"start", "stop"} /\ oslog[k].out = "fail" )
       => (last.status = 500 /\ message = Strip(STDERR_1))

\* C17: discover_shares never raises and changes nothing, and when the
\* listing command exits non-zero, times out or is not installed it returns
\* an empty list.
C17_DiscoveryDegradesToEmpty ==
    [][ last'.op = "discover"
        => ( /\ last'.status = 200
             /\ UNCHANGED <<registry, unitFiles, credFiles, credMode>>
             /\ oslog'[1].out /= "ok" => shares' = <<>> ) ]_vars

\* the password whose hash is stored
StoredPassword(config) == _load_auth_config(config).password_hash.of

StoredHash(config) == _load_auth_config(config).password_hash

\* the failed logins of a client that are on record and inside the window
Recent(ip) ==
    { k \in DOMAIN attempts[ip] : clock - attempts[ip][k] < _WINDOW_SECONDS }

\* C18: a login from a client with 5 failed logins on record inside the
\* 60-second window is answered 429 without the password being checked and
\* without the session being authenticated; with fewer the password is
\* checked; a successful login clears the client's record; the records of
\* the other clients are not touched.
C18_LoginRateLimited ==
    [][ (authLast'.op = "login" /\ clock' = clock)
        => LET ip == authLast'.ip
           IN  /\ Cardinality(Recent(ip)) >= _MAX_ATTEMPTS
                    => ( /\ authLast'.status = 429
                         /\ ~authLast'.checked
                         /\ authed' = authed
                         /\ authConfig' = authConfig )
               /\ Cardinality(Recent(ip)) < _MAX_ATTEMPTS
                    => (authLast'.status \in {200, 401} /\ authLast'.checked)
               /\ authLast'.status = 200 => attempts'[ip] = <<>>
               /\ \A other \in Clients \ {ip} : attempts'[other] = attempts[other] ]_vars

\* C18's case: the first client, with 5 failed logins on record, has sent
\* the right password and was answered 429; the second is logged in
C18_Witness ==
    /\ authLast.op = "login"
    /\ authLast.ip = IP_A
    /\ authLast.status = 429
    /\ authLast.password = PW_DEFAULT
    /\ StoredPassword(authConfig) = PW_DEFAULT
    /\ Len(attempts[IP_A]) = _MAX_ATTEMPTS
    /\ IP_A \notin authed
    /\ IP_B \in authed

SecondaryCalls == {"reload", "disable", "rmdir"}

\* the calls of the last operation other than the secondary ones all ended well
PrimaryCallsOk ==
    \A k \in DOMAIN oslog : oslog[k].cmd \notin SecondaryCalls => oslog[k].out = "ok"

\* C21: a remove of a registered mount deletes the registry entry and returns
\* true whether or not the reload, the disabling of a unit or the directory
\* removal fails, by a non-zero exit or by a timeout; an add none of whose
\* other calls fails returns the mount as created whether or not the reload
\* fails.
C21_SecondaryFailuresSwallowed ==
    /\ (last.op = "remove" /\ last.mount /= NoMount)
       => (last.status = 200 /\ FindMount(registry, last.id) = 0)
    /\ (last.op = "add" /\ last.status /= 0 /\ PrimaryCallsOk)
       => last.status = 201

\* the content of the mount unit file the last add or update wrote
LastMountUnit ==
    unitFiles[UnitPath(_systemd_escape(_mount_path(last.mount.name), TRUE), EXT_MOUNT)]

\* the content of the automount unit file the last add or update wrote
LastAutomountUnit ==
    unitFiles[UnitPath(_systemd_escape(_mount_path(last.mount.name), TRUE),
                       EXT_AUTOMOUNT)]

\* C23: the mount unit of a mount added with options absent or empty (the
\* empty string included) carries the default options of its type; the
\* options given are used only when they are a non-empty string.
C23_EmptyOptionsMeanDefault ==
    AddCreated
    => LastMountUnit.options =
           IF ~Falsy(last.req.options) THEN last.req.options
           ELSE IF last.req.type = NFS THEN NFS_DEFAULT_OPTIONS
           ELSE SmbDefaultOptions(last.req.name)

\* path is MOUNT_BASE/<segment> for a non-empty segment without "/"
DirectChildOfBase(path) ==
    LET n == Len(MOUNT_BASE) + 1
    IN  /\ Len(path) > n
        /\ SubSeq(path, 1, n) = MOUNT_BASE \o <<"/">>
        /\ \A k \in (n + 1)..Len(path) : path[k] /= "/"

\* C27: the mount path of every registered name, and the one a successful
\* remove deletes, is a direct child of the mount base directory: never the
\* base directory itself, never a path outside it.
C27_MountPathBelowBase ==
    /\ \A i \in DOMAIN registry : DirectChildOfBase(_mount_path(registry[i].name))
    /\ (last.op = "remove" /\ last.status = 200)
       => DirectChildOfBase(_mount_path(last.mount.name))

\* the unit id of a name, by the utility and by the fallback
UnitIds(name) == { _systemd_escape(_mount_path(name), u) : u \in BOOLEAN }

\* C24: the unit id is a function of the name alone: the utility and the
\* fallback give the same unit id for the name of every mount added or
\* updated, so the unit files install wrote are the ones a later call finds,
\* whichever of the two answers, and a remove leaves none of them; the
\* fallback turns /a/b/c into a-b-c.
C24_UnitIdDeterministic ==
    /\ EscapeFallback(<<"/","a","/","b","/","c">>) = <<"a","-","b","-","c">>
    /\ \A i \in DOMAIN registry : Cardinality(UnitIds(registry[i].name)) = 1
    /\ (AddCreated \/ UpdateDone)
       => ( /\ Cardinality(UnitIds(last.mount.name)) = 1
            /\ FilesOf(last.mount) \subseteq DOMAIN unitFiles )
    /\ (last.op = "remove" /\ last.status = 200)
       => FilesOf(last.mount) \cap DOMAIN unitFiles = {}

\* C24's case: a mount named "d!" (slug "d-") was added after another; its
\* unit files are under media-nas-d\x2d, by the utility and by the fallback
C24_Witness ==
    /\ AddCreated
    /\ last.mount.name = N_D
    /\ Len(registry) = 2
    /\ EscapeFallback(_mount_path(N_D))
         = <<"m","e","d","i","a","-","n","a","s","-","d","\\","x","2","d">>
    /\ UnitPath(EscapeFallback(_mount_path(N_D)), EXT_AUTOMOUNT) \in DOMAIN unitFiles

\* the hosts the specification names as refused, on the string s
RefusedAsString(s) ==
    \/ s = <<>>
    \/ \E k \in DOMAIN s : s[k] \notin HostChars
    \/ s \in {LOCALHOST, LOOPBACK_V4, ANY_V4, LOOPBACK_V6}
    \/ Len(s) > MaxHostLen

\* C25 as stated: an add whose other fields are valid is refused exactly when
\* its host is empty or not a string, has a character outside [A-Za-z0-9._-],
\* is one of localhost, 127.0.0.1, 0.0.0.0 and ::1, or is longer than 253
\* characters.
C25_HostRefusedAsGiven ==
    AddAnswered
    => ( last.status = 400
         <=> (~IsStr(last.req.host) \/ RefusedAsString(last.req.host)) )

\* C25, amended: the host is refused when it is empty or not a string, and
\* otherwise exactly when, stripped of its surrounding whitespace, it is
\* empty, has a character outside [A-Za-z0-9._-], is one of localhost,
\* 127.0.0.1, 0.0.0.0 and ::1, or is longer than 253 characters; a host that
\* is accepted is stored stripped.
C25_HostRefusedAfterStrip ==
    AddAnswered
    => /\ last.status = 400
          <=> ( \/ ~IsStr(last.req.host)
                \/ last.req.host = <<>>
                \/ RefusedAsString(Strip(last.req.host)) )
       /\ last.status = 201 => last.mount.host = Strip(last.req.host)

\* C25's case: a host of 254 characters was refused after a host of 253
\* characters and a padded host had been accepted
C25_Witness ==
    /\ AddAnswered
    /\ last.status = 400
    /\ last.req.host = H_LONG
    /\ Len(registry) = 2
    /\ registry[1].host = H_MAX
    /\ registry[2].host = H_1

\* C26 as stated: the mount unit the last add or update wrote names the
\* source host:share with type nfs for a NetworkFileSystem mount and
\* //host/share with type cifs for a WindowsShare mount; the automount unit
\* has the mount point of the mount unit and an idle timeout of 600 seconds.
C26_UnitNamesShareAsGiven ==
    (AddCreated \/ UpdateDone)
    => LET m == last.mount
       IN  /\ m.type = NFS
                => ( /\ LastMountUnit.what = m.host \o <<":">> \o m.share
                     /\ LastMountUnit.type = NFS )
           /\ m.type = SMB
                => ( /\ LastMountUnit.what = <<"/","/">> \o m.host \o <<"/">> \o m.share
                     /\ LastMountUnit.type = CIFS )
           /\ LastAutomountUnit.section = "Automount"
           /\ LastAutomountUnit.where = LastMountUnit.where
           /\ LastAutomountUnit.timeout = 600

\* C26, amended: the source is host:share with a "/" put before a share that
\* does not start with one (nfs), and //host/share with the leading "/"
\* characters of the share removed (cifs); the automount unit has the mount
\* point of the mount unit, which is the mount path of the name, and an idle
\* timeout of 600 seconds.
C26_UnitNamesNormalisedShare ==
    (AddCreated \/ UpdateDone)
    => LET m == last.mount
       IN  /\ m.type = NFS
                => ( /\ LastMountUnit.what =
                           m.host \o <<":">>
                           \o (IF Head(m.share) = "/" THEN m.share
                               ELSE <<"/">> \o m.share)
                     /\ LastMountUnit.type = NFS )
           /\ m.type = SMB
                => ( /\ LastMountUnit.what =
                           <<"/","/">> \o m.host \o <<"/">> \o LStripSlash(m.share)
                     /\ LastMountUnit.type = CIFS )
           /\ LastMountUnit.section = "Mount"
           /\ LastMountUnit.where = _mount_path(m.name)
           /\ LastAutomountUnit.section = "Automount"
           /\ LastAutomountUnit.where = LastMountUnit.where
           /\ LastAutomountUnit.timeout = 600

\* C26's case: a WindowsShare mount added with the share "/s" on nas.local
\* has the source //nas.local/s; the registry holds an nfs mount as well
C26_Witness ==
    /\ AddCreated
    /\ last.mount.type = SMB
    /\ last.mount.share = S_SLASHED
    /\ LastMountUnit.what = <<"/","/">> \o H_NAS \o <<"/","s">>
    /\ LastAutomountUnit.timeout = 600
    /\ Len(registry) = 2
    /\ registry[1].type = NFS

\* the credential file content written for a WindowsShare mount
CredsOf(m) ==
    [ username |-> GetOr(m.username, <<>>),
      password |-> GetOr(m.password, <<>>),
      domain   |-> GetOr(m.domain, WORKGROUP) ]

\* the unit files of m, and its credential file when it is a WindowsShare
\* mount, are as the installation of m writes them
InstalledAs(units, creds, m) ==
    /\ \A p \in FilesOf(m) : p \in DOMAIN units
    /\ \A u \in BOOLEAN :
         LET id == _systemd_escape(_mount_path(m.name), u)
         IN  /\ units[UnitPath(id, EXT_MOUNT)] = _generate_mount_unit(m)
             /\ units[UnitPath(id, EXT_AUTOMOUNT)] = _generate_automount_unit(m)
    /\ m.type = SMB
         => ( /\ CredsFile(m.name) \in DOMAIN creds
              /\ creds[CredsFile(m.name)] = CredsOf(m) )

\* C22: after an add or an update, the files of the mount are as its
\* installation writes them, and installing its units and writing its
\* credential file once more changes no file; an update with an empty patch
\* of a mount whose files are as installed leaves the registry, every unit
\* file and the mount's credential file as they were.
C22_ReinstallIdempotent ==
    [][ /\ ( /\ last'.op \in {"add", "update"}
             /\ last'.status \in {200, 201} )
           => ( /\ InstalledAs(unitFiles', credFiles', last'.mount)
                /\ \A u \in BOOLEAN :
                     _install_units(unitFiles', last'.mount, u) = unitFiles'
                /\ _write_smb_credentials(credFiles', last'.mount) = credFiles' )
        /\ ( /\ last'.op = "update" /\ last'.status = 200
             /\ \A f \in MountFields : ~IsStr(last'.patch[f])
             /\ InstalledAs(unitFiles, credFiles, Updated(last'.id)) )
           => ( /\ registry' = registry
                /\ last'.mount = Updated(last'.id)
                /\ unitFiles' = unitFiles
                /\ last'.mount.type = SMB => credFiles' = credFiles ) ]_vars

\* C22's case: the second of two registered mounts, a WindowsShare mount with
\* its credential file, was updated with an empty patch
C22_Witness ==
    /\ UpdateDone
    /\ last.patch = NoPatch
    /\ Len(registry) = 2
    /\ last.id = registry[2].id
    /\ registry[2].type = SMB
    /\ registry[2].name = N_tv
    /\ registry[1].name = N_D
    /\ InstalledAs(unitFiles, credFiles, registry[2])

\* C28: every registered mount has both its unit files installed under its
\* unit id, and a registered WindowsShare mount that was given a username has
\* its credential file: no remove and no rename takes them away.
C28_RegisteredMountsKeepFiles ==
    \A i \in DOMAIN registry :
        /\ UnitsInstalled(unitFiles, registry[i])
        /\ (registry[i].type = SMB /\ ~Falsy(registry[i].username))
           => CredsFile(registry[i].name) \in DOMAIN credFiles

\* C29: as long as nothing was removed, the mount-point directory of every
\* registered mount exists.
C29_MountPointsExist ==
    removed = {}
    => \A i \in DOMAIN registry : _mount_path(registry[i].name) \in dirs

\* worker w2 is between the truncation and the write of its save, the file
\* is still empty, and both the registry before the save and the one after
\* it hold a mount: w2 loaded a registry that held one (its add appends to
\* one, its update or remove found its entry in it), no remove has written
\* an empty registry since, and what w2 is about to write holds a mount
SavingOverMounts(w2) ==
    /\ pc[w2] = "write"
    /\ registry = <<>>
    /\ removed = {}
    /\ cfg[w2] /= <<>>
    /\ job[w2].op = "add" => Len(cfg[w2]) >= 2

\* the load step of worker w returns a registry without mounts
LoadsNothing(w) ==
    /\ pc[w] = "idle"
    /\ pc'[w] /= "idle"
    /\ IF job'[w].op = "add" THEN Len(cfg'[w]) = 1 ELSE cfg'[w] = <<>>

\* C30: a load that runs while another request is saving sees the registry
\* before the save or the registry after it: when both hold a mount, it does
\* not see a registry without mounts.
C30_LoadsSeeWholeRegistry ==
    [][ \A w \in Workers, w2 \in Workers :
          (w /= w2 /\ SavingOverMounts(w2)) => ~LoadsNothing(w) ]_vars

=============================================================================
